---- MODULE Spec2Model ----
(***************************************************************************)
(* Electricity capacity-market simulation: the merit-order clearing        *)
(* engine (electricity_market_backend.py), the yearly game flow and the    *)
(* plant lifecycle (game_orchestrator.py) and the session endpoints        *)
(* (market_game_api.py).                                                   *)
(*                                                                         *)
(* Quantities (MW), prices ($/MWh) and demands are Python floats in the    *)
(* source; they are modelled as integers, on which the float operations    *)
(* used here (+, *, min, comparison) are exact.                            *)
(***************************************************************************)
EXTENDS Integers, Sequences, FiniteSets, TLC

VARIABLES
    \* ---- MarketEngine.clear_period_market, as a function of its arguments
    supply_bids,      \* List[YearlyBid] handed to the engine
    demand_profile,   \* AnnualDemandProfile handed to the engine
    period,           \* LoadPeriod handed to the engine
    market_result,    \* the MarketResult returned, or NoResult before the call
    \* ---- one game session and its rows in the database
    session,          \* DBGameSession: state, current_year, start_year, end_year
    db_users,         \* DBUser rows of the utilities: budget, debt, equity
    db_plants,        \* DBPowerPlant rows (of every session), in insertion order
    db_bids,          \* DBYearlyBid rows of the session, in insertion order
    db_results,       \* DBMarketResult rows of the session, in insertion order
    yearly_results,   \* YearlyGameFlowManager.yearly_results: year -> period -> result
    response,         \* what the last call returned or raised
    \* ---- the orchestrator and the calls it is serving
    active_games,     \* YearlyGameOrchestrator.active_games: ids with a flow manager
    in_flight         \* clear_annual_markets calls past the state check: call -> year

engine_vars == <<supply_bids, demand_profile, period, market_result>>
flow_vars == <<session, db_users, db_plants, db_bids, db_results, yearly_results,
               response>>
orchestrator_vars == <<active_games, in_flight>>
vars == <<supply_bids, demand_profile, period, market_result,
          session, db_users, db_plants, db_bids, db_results, yearly_results,
          response, active_games, in_flight>>

(***************************************************************************)
(* Bounds of the model.                                                    *)
(***************************************************************************)
MaxBids == 2      \* bids in a list handed to the engine
MaxQty == 2       \* largest bid quantity drawn
MaxPrice == 2     \* largest bid price drawn
MaxDemand == 3    \* largest target demand drawn

MaxResultRows == 6 \* DBMarketResult rows of a session (a clearing adds 3)
MaxStoredBids == 1 \* DBYearlyBid rows of a session
MaxPlants == 3    \* DBPowerPlant rows
LifeSpan == 3     \* years after the start year that a plant row may name

(***************************************************************************)
(* Enumerations.                                                           *)
(***************************************************************************)
\* GameStateEnum
setup == "setup"
year_planning == "year_planning"
bidding_open == "bidding_open"
market_clearing == "market_clearing"
year_complete == "year_complete"
game_complete == "game_complete"
GameStateEnum == {setup, year_planning, bidding_open, market_clearing,
                  year_complete, game_complete}

\* PlantStatusEnum
operating == "operating"
under_construction == "under_construction"
maintenance == "maintenance"
retired == "retired"
planned == "planned"
PlantStatusEnum == {operating, under_construction, maintenance, retired, planned}

\* DBGameSession.start_year and end_year: the session modelled is a two-year
\* game that starts in the default start year.
start_year == 2025
end_year == start_year + 1

OFF_PEAK == "off_peak"
SHOULDER == "shoulder"
PEAK == "peak"
LoadPeriod == {OFF_PEAK, SHOULDER, PEAK}

None == "None"

\* The id of the session whose game flow is modelled (startup.py), and the id
\* of a second session that shares the DBUser and DBPowerPlant tables with it.
game_session_id == "sample_game_1"
other_session_id == "other_game"
GameSessionIds == {game_session_id, other_session_id}
NoResult == [status |-> "not_called"]

Min(a, b) == IF a <= b THEN a ELSE b

RECURSIVE Pow(_, _)
Pow(b, e) == IF e = 0 THEN 1 ELSE b * Pow(b, e - 1)

(***************************************************************************)
(* AnnualDemandProfile.  demand_growth_rate is a whole number here (the    *)
(* source's 0.02 is a float): the growth factor is (1 + rate)^year_offset. *)
(***************************************************************************)
off_peak_hours == 5000
shoulder_hours == 2500
peak_hours == 1260

get_period_demand(profile, p, year_offset) ==
    LET growth_factor == Pow(1 + profile.demand_growth_rate, year_offset)
        demands == [x \in LoadPeriod |->
                       IF x = OFF_PEAK THEN profile.off_peak_demand
                       ELSE IF x = SHOULDER THEN profile.shoulder_demand
                       ELSE profile.peak_demand]
    IN  demands[p] * growth_factor

get_period_hours(profile, p) ==
    IF p = OFF_PEAK THEN profile.off_peak_hours
    ELSE IF p = SHOULDER THEN profile.shoulder_hours
    ELSE profile.peak_hours

(***************************************************************************)
(* MarketEngine.clear_period_market.                                       *)
(***************************************************************************)
\* The price and quantity of a YearlyBid for one period.
bid_price(bid, p) ==
    IF p = OFF_PEAK THEN bid.off_peak_price
    ELSE IF p = SHOULDER THEN bid.shoulder_price
    ELSE bid.peak_price

\* Mutant: what a plant sells off-peak is taken off its shoulder and peak
\* quantities.
bid_quantity_net_of_off_peak(bid, p) ==
    IF p = OFF_PEAK THEN bid.off_peak_quantity
    ELSE IF p = SHOULDER THEN bid.shoulder_quantity - bid.off_peak_quantity
    ELSE bid.peak_quantity - bid.off_peak_quantity

bid_quantity(bid, p) ==
    IF p = OFF_PEAK THEN bid.off_peak_quantity
    ELSE IF p = SHOULDER THEN bid.shoulder_quantity
    ELSE bid.peak_quantity

\* Mutant: bids of quantity 0 or below are kept.
extract_period_bids_keep_all(bids, p) ==
    [i \in 1..Len(bids) |->
        [bid_id |-> bids[i].id, plant_id |-> bids[i].plant_id,
         utility_id |-> bids[i].utility_id,
         price |-> bid_price(bids[i], p), quantity |-> bid_quantity(bids[i], p)]]

\* The first loop: one entry per bid of positive quantity, in list order.
RECURSIVE extract_period_bids(_, _)
extract_period_bids(bids, p) ==
    IF bids = <<>> THEN <<>>
    ELSE LET bid == Head(bids)
             price == bid_price(bid, p)
             quantity == bid_quantity(bid, p)
             rest == extract_period_bids(Tail(bids), p)
         IN  IF quantity > 0
             THEN <<[bid_id |-> bid.id, plant_id |-> bid.plant_id,
                     utility_id |-> bid.utility_id,
                     price |-> price, quantity |-> quantity]>> \o rest
             ELSE rest

\* Mutant: an entry is placed before the entries of its price.
RECURSIVE insert_by_price_before_ties(_, _)
insert_by_price_before_ties(sorted, e) ==
    IF sorted = <<>> THEN <<e>>
    ELSE IF e.price <= Head(sorted).price THEN <<e>> \o sorted
    ELSE <<Head(sorted)>> \o insert_by_price_before_ties(Tail(sorted), e)

\* list.sort(key=price): a stable sort, here by insertion from the left.
RECURSIVE insert_by_price(_, _)
insert_by_price(sorted, e) ==
    IF sorted = <<>> THEN <<e>>
    ELSE IF e.price < Head(sorted).price THEN <<e>> \o sorted
    ELSE <<Head(sorted)>> \o insert_by_price(Tail(sorted), e)

RECURSIVE sort_by_price(_)
sort_by_price(s) ==
    IF s = <<>> THEN <<>>
    ELSE insert_by_price(sort_by_price(SubSeq(s, 1, Len(s) - 1)), s[Len(s)])

\* Mutant: the marginal bid is not appended to the accepted list.
RECURSIVE clearing_loop_drop_marginal(_, _, _)
clearing_loop_drop_marginal(period_bids, target_demand, acc) ==
    IF period_bids = <<>> THEN acc
    ELSE LET bid == Head(period_bids)
             cumulative_supply == acc.cumulative_supply + bid.quantity
         IN  IF cumulative_supply >= target_demand
             THEN [cumulative_supply |-> cumulative_supply,
                   clearing_price |-> bid.price,
                   accepted_bids |-> acc.accepted_bids,
                   marginal_plant |-> bid.plant_id]
             ELSE clearing_loop_drop_marginal(Tail(period_bids), target_demand,
                      [acc EXCEPT !.cumulative_supply = cumulative_supply,
                                  !.accepted_bids = Append(@, bid.bid_id)])

\* Mutant: the loop does not stop at the marginal bid.
RECURSIVE clearing_loop_no_break(_, _, _)
clearing_loop_no_break(period_bids, target_demand, acc) ==
    IF period_bids = <<>> THEN acc
    ELSE LET bid == Head(period_bids)
             cumulative_supply == acc.cumulative_supply + bid.quantity
         IN  clearing_loop_no_break(Tail(period_bids), target_demand,
                 IF cumulative_supply >= target_demand
                 THEN [cumulative_supply |-> cumulative_supply,
                       clearing_price |-> bid.price,
                       accepted_bids |-> Append(acc.accepted_bids, bid.bid_id),
                       marginal_plant |-> bid.plant_id]
                 ELSE [acc EXCEPT !.cumulative_supply = cumulative_supply,
                                  !.accepted_bids = Append(@, bid.bid_id)])

\* The clearing loop over the sorted bids, from the accumulators acc.
RECURSIVE clearing_loop(_, _, _)
clearing_loop(period_bids, target_demand, acc) ==
    IF period_bids = <<>> THEN acc
    ELSE LET bid == Head(period_bids)
             cumulative_supply == acc.cumulative_supply + bid.quantity
         IN  IF cumulative_supply >= target_demand
             THEN [cumulative_supply |-> cumulative_supply,
                   clearing_price |-> bid.price,
                   accepted_bids |-> Append(acc.accepted_bids, bid.bid_id),
                   marginal_plant |-> bid.plant_id]
             ELSE clearing_loop(Tail(period_bids), target_demand,
                      [acc EXCEPT !.cumulative_supply = cumulative_supply,
                                  !.accepted_bids = Append(@, bid.bid_id)])

\* Mutant: scarcity clears at the highest price, not at twice the highest price.
scarcity_price_not_doubled(period_bids, target_demand, cleared) ==
    IF cleared.cumulative_supply < target_demand /\ period_bids # <<>>
    THEN period_bids[Len(period_bids)].price
    ELSE cleared.clearing_price

\* "If we can't meet demand, clear at highest price".
scarcity_price(period_bids, target_demand, cleared) ==
    IF cleared.cumulative_supply < target_demand /\ period_bids # <<>>
    THEN period_bids[Len(period_bids)].price * 2
    ELSE cleared.clearing_price

\* Mutant: the cleared quantity is the accumulated supply, not capped at demand.
cleared_quantity_uncapped(target_demand, cumulative_supply) == cumulative_supply

\* cleared_quantity = min(target_demand, cumulative_supply)
cleared_quantity_of(target_demand, cumulative_supply) ==
    Min(target_demand, cumulative_supply)

\* Mutant: the accumulators are kept from the previous run of the engine.
new_clearing_carried ==
    IF market_result = NoResult
    THEN [cumulative_supply |-> 0, clearing_price |-> 0,
          accepted_bids |-> <<>>, marginal_plant |-> None]
    ELSE [cumulative_supply |-> market_result.cleared_quantity,
          clearing_price |-> market_result.clearing_price,
          accepted_bids |-> <<>>, marginal_plant |-> None]

\* "Clear the market": the locals every run starts from.
new_clearing ==
    [cumulative_supply |-> 0, clearing_price |-> 0,
     accepted_bids |-> <<>>, marginal_plant |-> None]

clear_period_market(bids, profile, p, year) ==
    LET target_demand == get_period_demand(profile, p, 0)
        period_hours == get_period_hours(profile, p)
        period_bids == sort_by_price(extract_period_bids(bids, p))
        cleared == clearing_loop(period_bids, target_demand, new_clearing)
        clearing_price == scarcity_price(period_bids, target_demand, cleared)
        cleared_quantity == cleared_quantity_of(target_demand, cleared.cumulative_supply)
        total_energy == cleared_quantity * period_hours
    IN  [year |-> year,
         period |-> p,
         clearing_price |-> clearing_price,
         cleared_quantity |-> cleared_quantity,
         total_energy |-> total_energy,
         accepted_supply_bids |-> cleared.accepted_bids,
         marginal_plant |-> cleared.marginal_plant]

(***************************************************************************)
(* The engine on its own: the arguments are drawn in the initial state and *)
(* one step applies clear_period_market to them.  A bid carries the drawn  *)
(* quantity and price in the period that is cleared and other values in    *)
(* the two other periods.                                                  *)
(***************************************************************************)
Quantities == (0 - 1)..MaxQty
Prices == 1..MaxPrice
Demands == 0..MaxDemand

bid_id_of(i) == <<"bid", i>>
plant_id_of(i) == <<"plant", i>>
utility_id_of(i) == <<"utility", i>>

EngineBid(i, q, pr, p) ==
    [id |-> bid_id_of(i), utility_id |-> utility_id_of(i),
     plant_id |-> plant_id_of(i), year |-> start_year,
     off_peak_quantity |-> IF p = OFF_PEAK THEN q ELSE MaxQty - q,
     shoulder_quantity |-> IF p = SHOULDER THEN q ELSE MaxQty - q,
     peak_quantity |-> IF p = PEAK THEN q ELSE MaxQty - q,
     off_peak_price |-> IF p = OFF_PEAK THEN pr ELSE MaxPrice + 1 - pr,
     shoulder_price |-> IF p = SHOULDER THEN pr ELSE MaxPrice + 1 - pr,
     peak_price |-> IF p = PEAK THEN pr ELSE MaxPrice + 1 - pr]

EngineProfile(d, p) ==
    [year |-> start_year,
     off_peak_hours |-> off_peak_hours,
     shoulder_hours |-> shoulder_hours,
     peak_hours |-> peak_hours,
     off_peak_demand |-> IF p = OFF_PEAK THEN d ELSE MaxDemand - d,
     shoulder_demand |-> IF p = SHOULDER THEN d ELSE MaxDemand - d,
     peak_demand |-> IF p = PEAK THEN d ELSE MaxDemand - d,
     demand_growth_rate |-> 1]

\* YearlyGameOrchestrator.__init__: a flow manager for the existing session,
\* and no call being served.
OrchestratorInit ==
    /\ active_games = {game_session_id}
    /\ in_flight = {}

EngineInit ==
    /\ \E n \in 0..MaxBids, p \in LoadPeriod, d \in Demands :
         \E raw \in [1..n -> Quantities \X Prices] :
            /\ supply_bids = [i \in 1..n |-> EngineBid(i, raw[i][1], raw[i][2], p)]
            /\ demand_profile = EngineProfile(d, p)
            /\ period = p
    /\ market_result = NoResult
    /\ OrchestratorInit

EngineIdle ==
    /\ OrchestratorInit
    /\ supply_bids = <<>>
    /\ demand_profile = EngineProfile(0, OFF_PEAK)
    /\ period = OFF_PEAK
    /\ market_result = NoResult

ClearPeriodMarket ==
    /\ market_result = NoResult
    /\ market_result' = clear_period_market(supply_bids, demand_profile, period, start_year)
    /\ UNCHANGED <<supply_bids, demand_profile, period>>

\* The bid with the quantity and price it has for period p and the given
\* quantity and price in the two other periods.
with_other_periods(bid, p, q, pr) ==
    [bid EXCEPT
        !.off_peak_quantity = IF p = OFF_PEAK THEN @ ELSE q,
        !.shoulder_quantity = IF p = SHOULDER THEN @ ELSE q,
        !.peak_quantity = IF p = PEAK THEN @ ELSE q,
        !.off_peak_price = IF p = OFF_PEAK THEN @ ELSE pr,
        !.shoulder_price = IF p = SHOULDER THEN @ ELSE pr,
        !.peak_price = IF p = PEAK THEN @ ELSE pr]

\* A run of the engine for the same period on bids that differ from those of
\* the first run in the two other periods only.
ClearPeriodMarketOtherPeriods ==
    /\ market_result # NoResult
    /\ response = [op |-> "none"]
    /\ \E q \in Quantities, pr \in Prices :
          LET other_bids == [i \in 1..Len(supply_bids) |->
                                with_other_periods(supply_bids[i], period, q, pr)]
          IN  response' =
                  [op |-> "clear_period_market_other_periods",
                   changed |-> other_bids # supply_bids,
                   result |-> clear_period_market(other_bids, demand_profile,
                                                  period, start_year)]
    /\ UNCHANGED <<supply_bids, demand_profile, period, market_result>>

\* A second run of the engine on the arguments of the first; what it returns
\* is kept beside the first result.
ClearPeriodMarketAgain ==
    /\ market_result # NoResult
    /\ response = [op |-> "none"]
    /\ response' = [op |-> "clear_period_market",
                    result |-> clear_period_market(supply_bids, demand_profile,
                                                   period, start_year)]
    /\ UNCHANGED <<supply_bids, demand_profile, period, market_result>>

\* PowerPlant.is_available: the plant can operate in year.
is_available(plant, year) ==
    /\ plant.status = operating
    /\ year >= plant.commissioning_year
    /\ year < plant.retirement_year
    /\ year \notin plant.maintenance_years

(***************************************************************************)
(* YearlyGameFlowManager._update_plant_statuses: the lifecycle pass.       *)
(***************************************************************************)
\* Mutant: a plant comes online whatever its status.
update_plant_status_any_comes_online(plant, year) ==
    LET s1 == IF year >= plant.commissioning_year THEN operating ELSE plant.status
        s2 == IF year \in plant.maintenance_years /\ s1 = operating THEN maintenance
              ELSE IF s1 = maintenance /\ year \notin plant.maintenance_years
                   THEN operating
              ELSE s1
    IN  IF year >= plant.retirement_year /\ s2 # retired THEN retired ELSE s2

\* Mutant: retirement is checked only when no other rule changed the status.
update_plant_status_retires_unless_changed(plant, year) ==
    LET s1 == IF plant.status = under_construction /\ year >= plant.commissioning_year
              THEN operating ELSE plant.status
        s2 == IF year \in plant.maintenance_years /\ s1 = operating THEN maintenance
              ELSE IF s1 = maintenance /\ year \notin plant.maintenance_years
                   THEN operating
              ELSE s1
    IN  IF year >= plant.retirement_year /\ s2 = plant.status THEN retired ELSE s2

\* Mutant: a plant in maintenance stays there after the year has passed.
update_plant_status_maintenance_stays(plant, year) ==
    LET s1 == IF plant.status = under_construction /\ year >= plant.commissioning_year
              THEN operating ELSE plant.status
        s2 == IF year \in plant.maintenance_years /\ s1 = operating THEN maintenance
              ELSE s1
    IN  IF year >= plant.retirement_year /\ s2 # retired THEN retired ELSE s2

\* Mutant: the maintenance check reads the status the plant had before the
\* commissioning check.
update_plant_status_maintenance_on_old_status(plant, year) ==
    LET s1 == IF plant.status = under_construction /\ year >= plant.commissioning_year
              THEN operating ELSE plant.status
        s2 == IF year \in plant.maintenance_years /\ plant.status = operating
              THEN maintenance
              ELSE IF plant.status = maintenance /\ year \notin plant.maintenance_years
                   THEN operating
              ELSE s1
    IN  IF year >= plant.retirement_year /\ s2 # retired THEN retired ELSE s2

\* The body of the loop: the status of one plant after the pass for year.
update_plant_status(plant, year) ==
    LET s1 == IF plant.status = under_construction /\ year >= plant.commissioning_year
              THEN operating ELSE plant.status
        s2 == IF year \in plant.maintenance_years /\ s1 = operating THEN maintenance
              ELSE IF s1 = maintenance /\ year \notin plant.maintenance_years
                   THEN operating
              ELSE s1
    IN  IF year >= plant.retirement_year /\ s2 # retired THEN retired ELSE s2

\* The "change" entries the pass appends to updates for one plant.
plant_changes(plant, year) ==
    LET s1 == IF plant.status = under_construction /\ year >= plant.commissioning_year
              THEN operating ELSE plant.status
        c1 == IF s1 # plant.status THEN <<"commissioned">> ELSE <<>>
        s2 == IF year \in plant.maintenance_years /\ s1 = operating THEN maintenance
              ELSE IF s1 = maintenance /\ year \notin plant.maintenance_years
                   THEN operating
              ELSE s1
        c2 == IF s2 = s1 THEN <<>>
              ELSE IF s2 = maintenance THEN <<"maintenance">>
              ELSE <<"maintenance_complete">>
        c3 == IF year >= plant.retirement_year /\ s2 # retired
              THEN <<"retired">> ELSE <<>>
    IN  c1 \o c2 \o c3

RECURSIVE plant_updates(_, _)
plant_updates(plants, year) ==
    IF plants = <<>> THEN <<>>
    ELSE LET changes == IF Head(plants).game_session_id = game_session_id
                        THEN plant_changes(Head(plants), year) ELSE <<>>
         IN  [k \in 1..Len(changes) |->
                 [plant_id |-> Head(plants).id, change |-> changes[k]]]
             \o plant_updates(Tail(plants), year)

update_plant_statuses(plants, year) ==
    [i \in 1..Len(plants) |->
        IF plants[i].game_session_id = game_session_id
        THEN [plants[i] EXCEPT !.status = update_plant_status(plants[i], year)]
        ELSE plants[i]]

(***************************************************************************)
(* The session: DBGameSession and the rows that belong to it.              *)
(***************************************************************************)
Utilities == {<<"utility", 1>>, <<"utility", 2>>}

\* market_events (the advisory events start_year_planning draws at random)
\* are not part of the state: no operation reads them back.

\* The plants of the session when the game starts (market_game_api.py seeds
\* plants as operating when commissioning_year <= 2025, under construction
\* otherwise, with an empty maintenance list).
SeedPlants ==
    <<[id |-> <<"plant", 1>>, utility_id |-> <<"utility", 1>>,
       game_session_id |-> game_session_id,
       commissioning_year |-> start_year, retirement_year |-> start_year + 25,
       status |-> operating, maintenance_years |-> {},
       fixed_om_annual |-> 1800000],
      [id |-> <<"plant", 2>>, utility_id |-> <<"utility", 2>>,
       game_session_id |-> game_session_id,
       commissioning_year |-> start_year + 1, retirement_year |-> start_year + 21,
       status |-> under_construction, maintenance_years |-> {},
       fixed_om_annual |-> 7200000]>>

\* DBUser column defaults: $1B budget and equity, no debt.
default_budget == 1000000000
SeedUsers ==
    [u \in Utilities |->
        [budget |-> default_budget, debt |-> 0, equity |-> default_budget]]

\* create_game_session / sample data: the session's demand profile.
SessionDemand ==
    [off_peak_demand |-> 1200, shoulder_demand |-> 1800, peak_demand |-> 2400,
     demand_growth_rate |-> 1]

\* The years a call may name (complete_year also the year after the end
\* year), and the years a bid may name.
YearArgs == start_year..end_year
CompleteYearArgs == start_year..(end_year + 1)
BidYears == start_year..end_year

\* The quantities and prices a submitted bid may carry.
BidShapes ==
    {[off_peak_quantity |-> 1500, shoulder_quantity |-> 1500, peak_quantity |-> 1000,
      off_peak_price |-> 30, shoulder_price |-> 40, peak_price |-> 50],
     [off_peak_quantity |-> 0, shoulder_quantity |-> 0, peak_quantity |-> 0,
      off_peak_price |-> 10, shoulder_price |-> 10, peak_price |-> 10]}

RowsInit ==
    /\ session = [state |-> setup, current_year |-> start_year]
    /\ db_plants = SeedPlants
    /\ db_bids = <<>>
    /\ db_results = <<>>
    /\ yearly_results = [y \in {} |-> NoResult]
    /\ response = [op |-> "none"]

FlowInit == RowsInit /\ db_users = SeedUsers

(***************************************************************************)
(* market_game_api.py: create_power_plant and assign_portfolio_to_utility. *)
(* Capital cost times 0.7 and 0.3 is modelled in exact tenths.             *)
(***************************************************************************)
PLANT_TEMPLATES_DATA ==
    [natural_gas_ct |-> [overnight_cost_per_kw |-> 800, fixed_om_per_kw_year |-> 12]]

\* "current_year = 2025  # TODO: Get from game session"
hardcoded_current_year == 2025

\* The DBGameSession row of a session: the second session is a freshly
\* created one whose start year is the year before that of the first, and no
\* operation modelled here writes its row.
other_session_row == [state |-> setup, current_year |-> start_year - 1]
session_row(session_id) ==
    IF session_id = game_session_id THEN session ELSE other_session_row

\* str(uuid.uuid4()): an id that no plant row carries and no bid refers to.
fresh_plant_id(plants, bids) ==
    LET used == {plants[i].id[2] : i \in 1..Len(plants)}
                \cup {bids[i].plant_id[2] : i \in 1..Len(bids)}
    IN  <<"plant", CHOOSE n \in 1..(Cardinality(used) + 1) : n \notin used>>

total_capital_cost_of(plant) ==
    (plant.capacity_mw * 1000)
        * PLANT_TEMPLATES_DATA[plant.plant_type].overnight_cost_per_kw

\* "Update utility budget (subtract capital cost)", 70% debt, 30% equity.
finance_plant(utility, total_capital_cost) ==
    [budget |-> utility.budget - total_capital_cost,
     debt |-> utility.debt + (total_capital_cost * 7) \div 10,
     equity |-> utility.equity - (total_capital_cost * 3) \div 10]

create_power_plant(session_id, utility_id, plant) ==
    IF plant.plant_type \notin DOMAIN PLANT_TEMPLATES_DATA
    THEN /\ response' = [op |-> "create_power_plant", game_session_id |-> session_id,
                         status |-> "invalid_plant_type"]
         /\ UNCHANGED <<session, db_users, db_plants, db_bids, db_results,
                        yearly_results>>
    ELSE LET total_capital_cost == total_capital_cost_of(plant)
             status == IF plant.commissioning_year <= hardcoded_current_year
                       THEN operating ELSE under_construction
         IN  /\ Len(db_plants) < MaxPlants
             /\ db_users' = [db_users EXCEPT ![utility_id] =
                                finance_plant(@, total_capital_cost)]
             /\ db_plants' = Append(db_plants,
                    [id |-> fresh_plant_id(db_plants, db_bids),
                     utility_id |-> utility_id,
                     game_session_id |-> session_id,
                     commissioning_year |-> plant.commissioning_year,
                     retirement_year |-> plant.retirement_year,
                     status |-> status, maintenance_years |-> {},
                     fixed_om_annual |->
                         (plant.capacity_mw * 1000)
                             * PLANT_TEMPLATES_DATA[plant.plant_type].fixed_om_per_kw_year])
             /\ response' = [op |-> "create_power_plant",
                             game_session_id |-> session_id, status |-> "created",
                             utility_id |-> utility_id,
                             capital_cost_total |-> total_capital_cost]
             /\ UNCHANGED <<session, db_bids, db_results, yearly_results>>

\* The portfolios modelled hold at most one plant, of a known type.
assign_portfolio_to_utility(session_id, utility_id, portfolio) ==
    LET kept == SelectSeq(db_plants, LAMBDA pl :
                    ~(pl.utility_id = utility_id /\ pl.game_session_id = session_id))
        created == [k \in 1..Len(portfolio.plants) |->
                      [id |-> fresh_plant_id(kept, db_bids),
                       utility_id |-> utility_id,
                       game_session_id |-> session_id,
                       commissioning_year |-> portfolio.plants[k].commissioning_year,
                       retirement_year |-> portfolio.plants[k].retirement_year,
                       status |-> IF portfolio.plants[k].commissioning_year
                                        <= session_row(session_id).current_year
                                  THEN operating ELSE under_construction,
                       maintenance_years |-> {},
                       fixed_om_annual |->
                           (portfolio.plants[k].capacity_mw * 1000)
                               * PLANT_TEMPLATES_DATA[portfolio.plants[k].plant_type]
                                     .fixed_om_per_kw_year]]
        position == [budget |-> portfolio.initial_budget,
                     debt |-> portfolio.initial_debt,
                     equity |-> portfolio.initial_equity]
    IN  /\ Len(kept) + Len(created) <= MaxPlants
        /\ db_users' = [db_users EXCEPT ![utility_id] = position]
        /\ db_plants' = kept \o created
        /\ response' = [op |-> "assign_portfolio", game_session_id |-> session_id,
                        status |-> "assigned", utility_id |-> utility_id,
                        financial_position |-> position]
        /\ UNCHANGED <<session, db_bids, db_results, yearly_results>>

(***************************************************************************)
(* market_game_api.py: submit_yearly_bid, update_game_state, advance_year. *)
(***************************************************************************)
\* "Check if bid already exists for this plant and year": the positions of
\* the rows the query matches (every row belongs to the session).
existing_bid(bids, bid) ==
    {i \in 1..Len(bids) : bids[i].plant_id = bid.plant_id /\ bids[i].year = bid.year}

\* Mutant: the existing row keeps its values.
updated_bid_values_kept(row, bid) == row

\* "Update existing bid": the six values of the row are overwritten.
updated_bid(row, bid) ==
    [row EXCEPT !.off_peak_quantity = bid.off_peak_quantity,
                !.shoulder_quantity = bid.shoulder_quantity,
                !.peak_quantity = bid.peak_quantity,
                !.off_peak_price = bid.off_peak_price,
                !.shoulder_price = bid.shoulder_price,
                !.peak_price = bid.peak_price]

\* The response records the request of a stored bid next to the status.
submit_yearly_bid(utility_id, bid) ==
    LET owned == \E i \in 1..Len(db_plants) :
                    /\ db_plants[i].id = bid.plant_id
                    /\ db_plants[i].utility_id = utility_id
                    /\ db_plants[i].game_session_id = game_session_id
        existing == existing_bid(db_bids, bid)
    IN  IF ~owned
        THEN /\ response' = [op |-> "submit_yearly_bid",
                             status |-> "not_found"]
             /\ UNCHANGED <<session, db_users, db_plants, db_bids, db_results,
                            yearly_results>>
        ELSE IF existing # {}
        THEN LET i == CHOOSE j \in existing : \A k \in existing : j <= k
             IN  /\ db_bids' = [db_bids EXCEPT ![i] = updated_bid(@, bid)]
                 /\ response' = [op |-> "submit_yearly_bid",
                                 status |-> "ok", request |-> bid]
                 /\ UNCHANGED <<session, db_users, db_plants, db_results,
                                yearly_results>>
        ELSE /\ Len(db_bids) < MaxStoredBids
             /\ db_bids' = Append(db_bids,
                    [id |-> <<"bid", Len(db_bids) + 1>>, utility_id |-> utility_id,
                     plant_id |-> bid.plant_id, year |-> bid.year,
                     off_peak_quantity |-> bid.off_peak_quantity,
                     shoulder_quantity |-> bid.shoulder_quantity,
                     peak_quantity |-> bid.peak_quantity,
                     off_peak_price |-> bid.off_peak_price,
                     shoulder_price |-> bid.shoulder_price,
                     peak_price |-> bid.peak_price])
             /\ response' = [op |-> "submit_yearly_bid",
                             status |-> "ok", request |-> bid]
             /\ UNCHANGED <<session, db_users, db_plants, db_results, yearly_results>>

update_game_state(new_state) ==
    /\ session' = [session EXCEPT !.state = new_state]
    /\ response' = [op |-> "update_game_state", status |-> "updated"]
    /\ UNCHANGED <<db_users, db_plants, db_bids, db_results, yearly_results>>

advance_year ==
    /\ session' = IF session.current_year >= end_year
                  THEN [session EXCEPT !.state = game_complete]
                  ELSE [session EXCEPT !.current_year = @ + 1,
                                       !.state = year_planning]
    /\ response' = [op |-> "advance_year", status |-> "advanced"]
    /\ UNCHANGED <<db_users, db_plants, db_bids, db_results, yearly_results>>

(***************************************************************************)
(* YearlyGameFlowManager: the four game-flow entry points.                 *)
(***************************************************************************)
\* _get_demand_forecast: base demand times (1 + growth rate) ** (year - start).
get_demand_forecast(year) ==
    LET growth_factor == Pow(1 + SessionDemand.demand_growth_rate, year - start_year)
    IN  [off_peak |-> SessionDemand.off_peak_demand * growth_factor,
         shoulder |-> SessionDemand.shoulder_demand * growth_factor,
         peak |-> SessionDemand.peak_demand * growth_factor]

start_year_planning(year) ==
    /\ session' = [session EXCEPT !.current_year = year, !.state = year_planning]
    /\ db_plants' = update_plant_statuses(db_plants, year)
    /\ response' = [op |-> "start_year_planning", year |-> year,
                    status |-> "year_planning_started",
                    demand_forecast |-> get_demand_forecast(year),
                    plant_updates |-> plant_updates(db_plants, year)]
    /\ UNCHANGED <<db_users, db_bids, db_results, yearly_results>>

\* "Get plants available for bidding": the ids of the rows the query returns.
get_available_plants(plants, year) ==
    LET rows == SelectSeq(plants, LAMBDA pl :
                    /\ pl.game_session_id = game_session_id
                    /\ pl.status = operating
                    /\ pl.commissioning_year <= year
                    /\ pl.retirement_year > year)
    IN  [k \in 1..Len(rows) |-> rows[k].id]

open_annual_bidding(year) ==
    /\ session' = [session EXCEPT !.current_year = year, !.state = bidding_open]
    /\ response' = [op |-> "open_annual_bidding", year |-> year,
                    status |-> "annual_bidding_open",
                    available_plants |-> get_available_plants(db_plants, year)]
    /\ UNCHANGED <<db_users, db_plants, db_bids, db_results, yearly_results>>

\* Mutant: the state check is missing.
state_allows_clearing_always(s) == TRUE

\* "Check if we're in the right state to clear markets"
state_allows_clearing(s) == s.state = bidding_open

\* Mutant: a year without bids is left in market_clearing.
no_bids_state_market_clearing == market_clearing

\* The state a year without bids ends in.
no_bids_state == year_complete

\* db.query(DBYearlyBid).filter(year == year).all()
bids_of_year(bids, year) == SelectSeq(bids, LAMBDA b : b.year = year)

\* AnnualDemandProfile(year=year) with the session's demands.
session_demand_profile(year) ==
    [year |-> year,
     off_peak_hours |-> off_peak_hours,
     shoulder_hours |-> shoulder_hours,
     peak_hours |-> peak_hours,
     off_peak_demand |-> SessionDemand.off_peak_demand,
     shoulder_demand |-> SessionDemand.shoulder_demand,
     peak_demand |-> SessionDemand.peak_demand,
     demand_growth_rate |-> SessionDemand.demand_growth_rate]

PeriodOrder == <<OFF_PEAK, SHOULDER, PEAK>>

\* _calculate_annual_utility_performance: per utility with a plant in the
\* session, the generation of its accepted bids (bid quantity x hours), their
\* revenue (generation x price), the fixed O&M of its plants and the profit.
\* Mutant: an accepted bid counts for every utility.
RECURSIVE accepted_generation_any_owner(_, _, _, _)
accepted_generation_any_owner(accepted, bids, utility_id, p) ==
    IF accepted = <<>> THEN 0
    ELSE LET found == {i \in 1..Len(bids) : bids[i].id = Head(accepted)}
             bid == bids[CHOOSE i \in found : TRUE]
             hours == IF p = OFF_PEAK THEN 5000 ELSE IF p = SHOULDER THEN 2500 ELSE 1260
         IN  (IF found # {} THEN bid_quantity(bid, p) * hours ELSE 0)
             + accepted_generation_any_owner(Tail(accepted), bids, utility_id, p)

RECURSIVE accepted_generation(_, _, _, _)
accepted_generation(accepted, bids, utility_id, p) ==
    IF accepted = <<>> THEN 0
    ELSE LET found == {i \in 1..Len(bids) : bids[i].id = Head(accepted)}
             bid == bids[CHOOSE i \in found : TRUE]
             hours == IF p = OFF_PEAK THEN 5000 ELSE IF p = SHOULDER THEN 2500 ELSE 1260
         IN  (IF found # {} /\ bid.utility_id = utility_id
              THEN bid_quantity(bid, p) * hours ELSE 0)
             + accepted_generation(Tail(accepted), bids, utility_id, p)

accepted_revenue(accepted, bids, utility_id, p, clearing_price) ==
    accepted_generation(accepted, bids, utility_id, p) * clearing_price

RECURSIVE total_fixed_costs(_, _)
total_fixed_costs(plants, utility_id) ==
    IF plants = <<>> THEN 0
    ELSE (IF Head(plants).utility_id = utility_id
             /\ Head(plants).game_session_id = game_session_id
          THEN Head(plants).fixed_om_annual ELSE 0)
         + total_fixed_costs(Tail(plants), utility_id)

calculate_annual_utility_performance(plants, bids, results) ==
    LET utilities == {plants[i].utility_id :
                        i \in {j \in 1..Len(plants) :
                                  plants[j].game_session_id = game_session_id}}
        revenue(u) ==
            accepted_revenue(results[OFF_PEAK].accepted_supply_bids, bids, u,
                             OFF_PEAK, results[OFF_PEAK].clearing_price)
            + accepted_revenue(results[SHOULDER].accepted_supply_bids, bids, u,
                               SHOULDER, results[SHOULDER].clearing_price)
            + accepted_revenue(results[PEAK].accepted_supply_bids, bids, u,
                               PEAK, results[PEAK].clearing_price)
        generation(u) ==
            accepted_generation(results[OFF_PEAK].accepted_supply_bids, bids, u,
                                OFF_PEAK)
            + accepted_generation(results[SHOULDER].accepted_supply_bids, bids, u,
                                  SHOULDER)
            + accepted_generation(results[PEAK].accepted_supply_bids, bids, u, PEAK)
    IN  [u \in utilities |->
            [total_revenue |-> revenue(u),
             total_generation_mwh |-> generation(u),
             total_fixed_costs |-> total_fixed_costs(plants, u),
             gross_profit |-> revenue(u) - total_fixed_costs(plants, u)]]

\* Mutant: the revenue reported for a utility is added to its budget.
users_after_performance_deposited(users, performance) ==
    [u \in DOMAIN users |->
        IF u \in DOMAIN performance
        THEN [users[u] EXCEPT !.budget = @ + performance[u].total_revenue]
        ELSE users[u]]

\* The DBUser rows after the performance computation: the rows are read for
\* the report and none is written.
users_after_performance(users, performance) == users

\* Mutant: a result replaces the stored results of its year and period.
store_market_results_replacing(rows, results) ==
    SelectSeq(rows, LAMBDA r : r.year # results[OFF_PEAK].year)
        \o [k \in 1..3 |-> results[PeriodOrder[k]]]

\* _store_market_result for the three periods: three rows are added.
store_market_results(rows, results) ==
    rows \o [k \in 1..3 |-> results[PeriodOrder[k]]]

\* clear_annual_markets when the state check refuses the call.
clearing_refused(year) ==
    /\ response' = [op |-> "clear_annual_markets", year |-> year,
                    status |-> "invalid_state"]
    /\ UNCHANGED <<session, db_users, db_plants, db_bids, db_results,
                   yearly_results>>

\* clear_annual_markets from the bids query to the report.
clear_markets_after_check(year) ==
         LET yearly_bids == bids_of_year(db_bids, year) IN
         IF yearly_bids = <<>>
         THEN /\ session' = [session EXCEPT !.state = no_bids_state]
              /\ response' = [op |-> "clear_annual_markets", year |-> year,
                              status |-> "no_bids_submitted",
                              total_market_revenue |-> 0]
              /\ UNCHANGED <<db_users, db_plants, db_bids, db_results, yearly_results>>
         ELSE LET profile == session_demand_profile(year)
                  results == [p \in LoadPeriod |->
                                 clear_period_market(yearly_bids, profile, p, year)]
                  total_revenue ==
                      results[OFF_PEAK].clearing_price * results[OFF_PEAK].total_energy
                      + results[SHOULDER].clearing_price * results[SHOULDER].total_energy
                      + results[PEAK].clearing_price * results[PEAK].total_energy
                  total_energy ==
                      results[OFF_PEAK].total_energy + results[SHOULDER].total_energy
                      + results[PEAK].total_energy
                  utility_performance ==
                      calculate_annual_utility_performance(db_plants, db_bids, results)
              IN  /\ Len(db_results) + 3 <= MaxResultRows
                  /\ db_results' = store_market_results(db_results, results)
                  /\ yearly_results' =
                         [y \in DOMAIN yearly_results \cup {year} |->
                             IF y = year THEN results ELSE yearly_results[y]]
                  /\ session' = [session EXCEPT !.state = market_clearing]
                  /\ response' =
                         IF total_energy = 0
                         THEN [op |-> "clear_annual_markets", year |-> year,
                               status |-> "zero_division_error"]
                         ELSE [op |-> "clear_annual_markets", year |-> year,
                               status |-> "annual_markets_cleared",
                               total_market_revenue |-> total_revenue,
                               utility_performance |-> utility_performance]
                  /\ db_users' = users_after_performance(db_users, utility_performance)
                  /\ UNCHANGED <<db_plants, db_bids>>

clear_annual_markets(year) ==
    IF ~state_allows_clearing(session)
    THEN clearing_refused(year)
    ELSE clear_markets_after_check(year)

\* Mutant: the game ends one year early.
game_should_end_early(year) == year >= end_year - 1

\* Mutant: the game ends only after the end year.
game_should_end_after(year) == year > end_year

\* "Check if game should continue"
game_should_end(year) == year >= end_year

complete_year(year) ==
    /\ session' = IF game_should_end(year)
                  THEN [session EXCEPT !.state = game_complete]
                  ELSE [session EXCEPT !.state = year_complete]
    /\ response' = [op |-> "complete_year", year |-> year,
                    status |-> "year_completed"]
    /\ UNCHANGED <<db_users, db_plants, db_bids, db_results, yearly_results>>

(***************************************************************************)
(* The game flow of one session.                                           *)
(***************************************************************************)
StartYearPlanning == \E year \in YearArgs : start_year_planning(year)
OpenAnnualBidding == \E year \in YearArgs : open_annual_bidding(year)
ClearAnnualMarkets == \E year \in YearArgs : clear_annual_markets(year)
CompleteYear == \E year \in CompleteYearArgs : complete_year(year)
AdvanceYear == advance_year
UpdateGameState == \E new_state \in GameStateEnum : update_game_state(new_state)
SubmitYearlyBid ==
    \E utility_id \in Utilities, i \in 1..Len(db_plants), year \in BidYears,
       shape \in BidShapes :
        \* a utility that does not own the plant is refused whatever it submits
        /\ (db_plants[i].utility_id # utility_id) =>
               (i = 1 /\ year = start_year /\ shape.off_peak_quantity = 0)
        /\ submit_yearly_bid(utility_id,
            [plant_id |-> db_plants[i].id, year |-> year,
             off_peak_quantity |-> shape.off_peak_quantity,
             shoulder_quantity |-> shape.shoulder_quantity,
             peak_quantity |-> shape.peak_quantity,
             off_peak_price |-> shape.off_peak_price,
             shoulder_price |-> shape.shoulder_price,
             peak_price |-> shape.peak_price])

Init == EngineIdle /\ FlowInit

Next ==
    \/ StartYearPlanning /\ UNCHANGED <<engine_vars, orchestrator_vars>>
    \/ OpenAnnualBidding /\ UNCHANGED <<engine_vars, orchestrator_vars>>
    \/ ClearAnnualMarkets /\ UNCHANGED <<engine_vars, orchestrator_vars>>
    \/ CompleteYear /\ UNCHANGED <<engine_vars, orchestrator_vars>>
    \/ AdvanceYear /\ UNCHANGED <<engine_vars, orchestrator_vars>>
    \/ UpdateGameState /\ UNCHANGED <<engine_vars, orchestrator_vars>>
    \/ SubmitYearlyBid /\ UNCHANGED <<engine_vars, orchestrator_vars>>

Spec == Init /\ [][Next]_vars

(***************************************************************************)
(* The endpoints of add_orchestration_endpoints called with the id of the  *)
(* session and with an id that no DBGameSession row carries.               *)
(***************************************************************************)
missing_session_id == "no_such_game"

\* orchestrator.get_game_flow: whether the id has a flow manager.
get_game_flow(session_id) == session_id \in active_games

\* POST start-year-planning for an id without a session row: the endpoint
\* creates a flow manager when there is none, and start_year_planning raises
\* ValueError("Game session not found").
start_year_planning_no_session(session_id, year) ==
    /\ active_games' = active_games \cup {session_id}
    /\ response' = [op |-> "start_year_planning", year |-> year,
                    game_session_id |-> session_id, status |-> "ValueError"]
    /\ UNCHANGED <<session, db_users, db_plants, db_bids, db_results,
                   yearly_results, in_flight>>

\* POST open-annual-bidding, clear-annual-markets and complete-year for an id
\* without a session row: 404 when the id has no flow manager; with one, the
\* first two raise ValueError("Game session not found") and complete_year
\* reads session.end_year of None.
flow_call_no_session(op, session_id, year) ==
    /\ response' = [op |-> op, year |-> year, game_session_id |-> session_id,
                    status |-> IF ~get_game_flow(session_id) THEN "not_found"
                               ELSE IF op = "complete_year" THEN "AttributeError"
                               ELSE "ValueError"]
    /\ UNCHANGED <<session, db_users, db_plants, db_bids, db_results,
                   yearly_results, active_games, in_flight>>

StartYearPlanningNoSession ==
    \E year \in YearArgs : start_year_planning_no_session(missing_session_id, year)
FlowCallNoSession ==
    \E op \in {"open_annual_bidding", "clear_annual_markets", "complete_year"},
       year \in YearArgs :
        flow_call_no_session(op, missing_session_id, year)

NextEndpoints ==
    \/ StartYearPlanning /\ UNCHANGED <<engine_vars, orchestrator_vars>>
    \/ OpenAnnualBidding /\ UNCHANGED <<engine_vars, orchestrator_vars>>
    \/ ClearAnnualMarkets /\ UNCHANGED <<engine_vars, orchestrator_vars>>
    \/ CompleteYear /\ UNCHANGED <<engine_vars, orchestrator_vars>>
    \/ StartYearPlanningNoSession /\ UNCHANGED engine_vars
    \/ FlowCallNoSession /\ UNCHANGED engine_vars

SpecEndpoints == Init /\ [][NextEndpoints]_vars

(***************************************************************************)
(* Two clear_annual_markets calls served at once by workers that share the *)
(* database: a call reads the session state, and later runs from the bids  *)
(* query to the commit; nothing locks the session in between.  Bidding is  *)
(* open for the start year and is not opened again.                        *)
(***************************************************************************)
Calls == {"first", "second"}

InitConcurrent ==
    /\ EngineIdle
    /\ session = [state |-> bidding_open, current_year |-> start_year]
    /\ db_users = SeedUsers
    /\ db_plants = SeedPlants
    /\ db_bids = <<>>
    /\ db_results = <<>>
    /\ yearly_results = [y \in {} |-> NoResult]
    /\ response = [op |-> "none"]

\* "Check if we're in the right state to clear markets"
ClearCheck ==
    \E call \in Calls, year \in YearArgs :
        /\ \A e \in in_flight : e.call # call
        /\ IF ~state_allows_clearing(session)
           THEN clearing_refused(year) /\ UNCHANGED in_flight
           ELSE /\ in_flight' = in_flight \cup {[call |-> call, year |-> year]}
                /\ UNCHANGED flow_vars
        /\ UNCHANGED active_games

\* The rest of the call, up to its commits and its report.
ClearCommit ==
    \E e \in in_flight :
        /\ clear_markets_after_check(e.year)
        /\ in_flight' = in_flight \ {e}
        /\ UNCHANGED active_games

NextConcurrent ==
    \/ SubmitYearlyBid /\ UNCHANGED <<engine_vars, orchestrator_vars>>
    \/ ClearCheck /\ UNCHANGED engine_vars
    \/ ClearCommit /\ UNCHANGED engine_vars

SpecConcurrent == InitConcurrent /\ [][NextConcurrent]_vars

(***************************************************************************)
(* A driver that calls start_year_planning, open_annual_bidding,           *)
(* clear_annual_markets and complete_year in that order for the start year *)
(* and each next year, until the game is complete.  The bids of each year, *)
(* none or one, are in the database from the start: submit_yearly_bid      *)
(* stores a bid for any year in any state.                                 *)
(***************************************************************************)
\* No bid for the year, or the bid of one seed plant in one of the shapes.
DriverBidChoices ==
    {<<>>} \cup {<<[plant |-> i, shape |-> shape]>> :
                    i \in 1..Len(SeedPlants), shape \in BidShapes}

stored_bid(n, year, choice) ==
    [id |-> <<"bid", n>>, utility_id |-> SeedPlants[choice.plant].utility_id,
     plant_id |-> SeedPlants[choice.plant].id, year |-> year,
     off_peak_quantity |-> choice.shape.off_peak_quantity,
     shoulder_quantity |-> choice.shape.shoulder_quantity,
     peak_quantity |-> choice.shape.peak_quantity,
     off_peak_price |-> choice.shape.off_peak_price,
     shoulder_price |-> choice.shape.shoulder_price,
     peak_price |-> choice.shape.peak_price]

InitDriver ==
    /\ EngineIdle
    /\ session = [state |-> setup, current_year |-> start_year]
    /\ db_users = SeedUsers
    /\ db_plants = SeedPlants
    /\ \E first \in DriverBidChoices, second \in DriverBidChoices :
          db_bids = [k \in 1..Len(first) |-> stored_bid(k, start_year, first[k])]
                    \o [k \in 1..Len(second) |->
                           stored_bid(Len(first) + k, start_year + 1, second[k])]
    /\ db_results = <<>>
    /\ yearly_results = [y \in {} |-> NoResult]
    /\ response = [op |-> "none"]

\* The next call of the driver, after the call it made last.
DriverCall ==
    IF response.op = "none" THEN start_year_planning(start_year)
    ELSE IF response.op = "start_year_planning" THEN open_annual_bidding(response.year)
    ELSE IF response.op = "open_annual_bidding" THEN clear_annual_markets(response.year)
    ELSE IF response.op = "clear_annual_markets" THEN complete_year(response.year)
    ELSE /\ session.state # game_complete
         /\ start_year_planning(response.year + 1)

NextDriver == DriverCall /\ UNCHANGED <<engine_vars, orchestrator_vars>>

SpecDriver == InitDriver /\ [][NextDriver]_vars /\ WF_vars(NextDriver)

(***************************************************************************)
(* The plant lifecycle on its own: the session holds one plant row, drawn  *)
(* in the initial state from every status, commissioning and retirement    *)
(* year and maintenance list, and start_year_planning runs the lifecycle   *)
(* pass for the years of the plant's life in any order.                    *)
(***************************************************************************)
LifeYears == start_year..(start_year + LifeSpan)

InitLifecycle ==
    /\ EngineIdle
    /\ session = [state |-> setup, current_year |-> start_year]
    /\ db_users = SeedUsers
    /\ \E status \in PlantStatusEnum, commissioning_year \in LifeYears,
          retirement_year \in LifeYears, maintenance_years \in SUBSET LifeYears :
          /\ commissioning_year <= retirement_year
          /\ db_plants = <<[id |-> <<"plant", 1>>, utility_id |-> <<"utility", 1>>,
                            game_session_id |-> game_session_id,
                            commissioning_year |-> commissioning_year,
                            retirement_year |-> retirement_year,
                            status |-> status,
                            maintenance_years |-> maintenance_years]>>
    /\ db_bids = <<>>
    /\ db_results = <<>>
    /\ yearly_results = [y \in {} |-> NoResult]
    /\ response = [op |-> "none"]

LifecyclePass == \E year \in LifeYears : start_year_planning(year)

NextLifecycle == LifecyclePass /\ UNCHANGED <<engine_vars, orchestrator_vars>>

SpecLifecycle == InitLifecycle /\ [][NextLifecycle]_vars

(***************************************************************************)
(* The plant lifecycle year after year: the session holds one plant row    *)
(* with the status its creation gave it in the start year, and             *)
(* start_year_planning runs for the start year, then for each next year.   *)
(***************************************************************************)
InitYearly ==
    /\ EngineIdle
    /\ session = [state |-> setup, current_year |-> start_year]
    /\ db_users = SeedUsers
    /\ \E commissioning_year \in LifeYears, retirement_year \in LifeYears,
          maintenance_years \in SUBSET LifeYears :
          /\ commissioning_year <= retirement_year
          /\ db_plants = <<[id |-> <<"plant", 1>>, utility_id |-> <<"utility", 1>>,
                            game_session_id |-> game_session_id,
                            commissioning_year |-> commissioning_year,
                            retirement_year |-> retirement_year,
                            status |-> IF commissioning_year <= session.current_year
                                       THEN operating ELSE under_construction,
                            maintenance_years |-> maintenance_years]>>
    /\ db_bids = <<>>
    /\ db_results = <<>>
    /\ yearly_results = [y \in {} |-> NoResult]
    /\ response = [op |-> "none"]

YearlyPass ==
    LET year == IF response.op = "none" THEN start_year ELSE session.current_year + 1
    IN  /\ year \in LifeYears
        /\ start_year_planning(year)

NextYearly == YearlyPass /\ UNCHANGED <<engine_vars, orchestrator_vars>>

SpecYearly == InitYearly /\ [][NextYearly]_vars

(***************************************************************************)
(* Bidding opened on a plant with a maintenance list: lifecycle passes and *)
(* open_annual_bidding calls for any year, in any order.                   *)
(***************************************************************************)
OpenBidding == \E year \in LifeYears : open_annual_bidding(year)

NextBidding ==
    \/ LifecyclePass /\ UNCHANGED <<engine_vars, orchestrator_vars>>
    \/ OpenBidding /\ UNCHANGED <<engine_vars, orchestrator_vars>>

SpecBidding == InitYearly /\ [][NextBidding]_vars

(***************************************************************************)
(* Investment: plant creation and portfolio assignment, on the session     *)
(* whose flow is modelled and on a second session with the same utilities. *)
(***************************************************************************)
PlantRequests ==
    {[plant_type |-> t, capacity_mw |-> 1, commissioning_year |-> c,
      retirement_year |-> c + 25] :
        t \in {"natural_gas_ct", "unknown_type"}, c \in {start_year, start_year + 1}}

Portfolios ==
    {[initial_budget |-> 100000, initial_debt |-> 0, initial_equity |-> 100000,
      plants |-> <<>>],
     [initial_budget |-> 500000, initial_debt |-> 200000, initial_equity |-> 500000,
      plants |-> <<[plant_type |-> "natural_gas_ct", capacity_mw |-> 1,
                    commissioning_year |-> start_year,
                    retirement_year |-> start_year + 25]>>]}

CreatePowerPlant ==
    \E session_id \in GameSessionIds, utility_id \in Utilities,
       plant \in PlantRequests :
        create_power_plant(session_id, utility_id, plant)

AssignPortfolio ==
    \E session_id \in GameSessionIds, utility_id \in Utilities,
       portfolio \in Portfolios :
        assign_portfolio_to_utility(session_id, utility_id, portfolio)

NextInvest ==
    \/ CreatePowerPlant /\ UNCHANGED <<engine_vars, orchestrator_vars>>
    \/ AssignPortfolio /\ UNCHANGED <<engine_vars, orchestrator_vars>>

SpecInvest == Init /\ [][NextInvest]_vars

(***************************************************************************)
(* Settlement: bidding, clearing and completing years for utilities whose  *)
(* financial position is drawn in the initial state.                       *)
(***************************************************************************)
FinancialPositions ==
    {[budget |-> default_budget, debt |-> 0, equity |-> default_budget],
     [budget |-> 100000, debt |-> 200000, equity |-> 0]}

InitSettle ==
    /\ EngineIdle
    /\ RowsInit
    /\ db_users \in [Utilities -> FinancialPositions]

NextSettle ==
    \/ OpenAnnualBidding /\ UNCHANGED <<engine_vars, orchestrator_vars>>
    \/ SubmitYearlyBid /\ UNCHANGED <<engine_vars, orchestrator_vars>>
    \/ ClearAnnualMarkets /\ UNCHANGED <<engine_vars, orchestrator_vars>>
    \/ CompleteYear /\ UNCHANGED <<engine_vars, orchestrator_vars>>

SpecSettle == InitSettle /\ [][NextSettle]_vars

(***************************************************************************)
(* The clearing engine on its own.                                         *)
(***************************************************************************)
InitEngine == EngineInit /\ FlowInit

NextEngine == ClearPeriodMarket /\ UNCHANGED <<flow_vars, orchestrator_vars>>

SpecEngine == InitEngine /\ [][NextEngine]_vars

(***************************************************************************)
(* The clearing engine run a second time: on the same arguments, and on    *)
(* bids changed in the periods that are not cleared.                       *)
(***************************************************************************)
NextEngineRuns ==
    \/ ClearPeriodMarket /\ UNCHANGED <<flow_vars, orchestrator_vars>>
    \/ ClearPeriodMarketOtherPeriods
          /\ UNCHANGED <<session, db_users, db_plants, db_bids, db_results,
                         yearly_results, orchestrator_vars>>
    \/ ClearPeriodMarketAgain
          /\ UNCHANGED <<session, db_users, db_plants, db_bids, db_results,
                         yearly_results, orchestrator_vars>>

SpecEngineRuns == InitEngine /\ [][NextEngineRuns]_vars

(***************************************************************************)
(* Merit order, stated without the engine's loops: the bids of positive    *)
(* quantity for the period, by ascending price, bids of equal price in the *)
(* order of the list.  The operators below give positions in supply_bids.  *)
(***************************************************************************)
PositiveBids == {i \in 1..Len(supply_bids) : bid_quantity(supply_bids[i], period) > 0}

Precedes(i, j) ==
    \/ bid_price(supply_bids[i], period) < bid_price(supply_bids[j], period)
    \/ /\ bid_price(supply_bids[i], period) = bid_price(supply_bids[j], period)
       /\ i < j

MeritOrder ==
    [r \in 1..Cardinality(PositiveBids) |->
        CHOOSE i \in PositiveBids :
            Cardinality({j \in PositiveBids : Precedes(j, i)}) = r - 1]

RECURSIVE RunningQuantity(_)
RunningQuantity(k) ==
    IF k = 0 THEN 0
    ELSE RunningQuantity(k - 1) + bid_quantity(supply_bids[MeritOrder[k]], period)

TotalSupply == RunningQuantity(Len(MeritOrder))

RECURSIVE SubmittedQuantity(_)
SubmittedQuantity(k) ==
    IF k = 0 THEN 0
    ELSE SubmittedQuantity(k - 1) + bid_quantity(supply_bids[k], period)

TargetDemand == get_period_demand(demand_profile, period, 0)

\* The first position of the merit order at which the running quantity reaches
\* target demand, 0 when it never does.
MarginalRank ==
    LET reached == {k \in 1..Len(MeritOrder) : RunningQuantity(k) >= TargetDemand}
    IN  IF reached = {} THEN 0
        ELSE CHOOSE k \in reached : \A m \in reached : k <= m

PriceAt(r) == bid_price(supply_bids[MeritOrder[r]], period)
HighestPrice ==
    CHOOSE x \in {PriceAt(r) : r \in 1..Len(MeritOrder)} :
        \A r \in 1..Len(MeritOrder) : PriceAt(r) <= x

Cleared == market_result # NoResult
Scarcity == PositiveBids # {} /\ TotalSupply < TargetDemand

QuantityPrice(i) ==
    <<bid_quantity(supply_bids[i], period), bid_price(supply_bids[i], period)>>

\* C1: when the positive bids in ascending price order reach target demand, the
\* clearing price is the price of the first bid at which the running quantity
\* reaches or exceeds demand, that bid's plant is the marginal plant and that
\* bid is accepted; two bids of 2 MW at 1 and at 2 against a demand of 3 clear
\* at 2 with 3 MW cleared, the second plant marginal and both bids accepted.
C1_MarginalBidSetsPrice ==
    Cleared =>
      /\ (PositiveBids # {} /\ TotalSupply >= TargetDemand) =>
            /\ MarginalRank > 0
            /\ market_result.clearing_price = PriceAt(MarginalRank)
            /\ market_result.marginal_plant = supply_bids[MeritOrder[MarginalRank]].plant_id
            /\ \E k \in 1..Len(market_result.accepted_supply_bids) :
                  market_result.accepted_supply_bids[k]
                      = supply_bids[MeritOrder[MarginalRank]].id
      /\ (/\ Len(supply_bids) = 2
          /\ QuantityPrice(1) = <<2, 1>>
          /\ QuantityPrice(2) = <<2, 2>>
          /\ TargetDemand = 3) =>
            /\ market_result.clearing_price = 2
            /\ market_result.cleared_quantity = 3
            /\ market_result.marginal_plant = plant_id_of(2)
            /\ market_result.accepted_supply_bids = <<bid_id_of(1), bid_id_of(2)>>

\* C1 witness: the two-bid scenario has been cleared, the second bid marginal
\* with an overshoot.
C1_Witness ==
    /\ Cleared
    /\ Len(supply_bids) = 2
    /\ QuantityPrice(1) = <<2, 1>>
    /\ QuantityPrice(2) = <<2, 2>>
    /\ TargetDemand = 3
    /\ market_result.marginal_plant = plant_id_of(2)

AcceptedCount == IF MarginalRank > 0 THEN MarginalRank ELSE Len(MeritOrder)

\* C4: the accepted list is exactly the merit order up to and including the
\* marginal bid (the whole merit order when demand is never reached), so it is
\* non-decreasing in price, and outside the scarcity case the clearing price is
\* the price of the last accepted bid.
C4_AcceptedIsMeritPrefix ==
    Cleared =>
      /\ market_result.accepted_supply_bids
            = [r \in 1..AcceptedCount |-> supply_bids[MeritOrder[r]].id]
      /\ \A r \in 1..(Len(market_result.accepted_supply_bids) - 1) :
            LET a == CHOOSE i \in 1..Len(supply_bids) :
                        supply_bids[i].id = market_result.accepted_supply_bids[r]
                b == CHOOSE i \in 1..Len(supply_bids) :
                        supply_bids[i].id = market_result.accepted_supply_bids[r + 1]
            IN  bid_price(supply_bids[a], period) <= bid_price(supply_bids[b], period)
      /\ (~Scarcity /\ market_result.accepted_supply_bids # <<>>) =>
            LET n == Len(market_result.accepted_supply_bids)
                a == CHOOSE i \in 1..Len(supply_bids) :
                        supply_bids[i].id = market_result.accepted_supply_bids[n]
            IN  market_result.clearing_price = bid_price(supply_bids[a], period)

\* C4 witness: a clearing in which a positive bid after the marginal bid was
\* left out of the accepted list.
C4_Witness ==
    /\ Cleared
    /\ MarginalRank > 0
    /\ MarginalRank < Len(MeritOrder)
    /\ Len(market_result.accepted_supply_bids) = MarginalRank

(***************************************************************************)
(* The game flow.                                                          *)
(***************************************************************************)
\* C5: clear_annual_markets called in a state other than bidding_open fails
\* with the invalid-state error and leaves the session state and current year,
\* the stored MarketResult rows and yearly_results as they were.
C5_ClearRequiresBiddingOpen ==
    [][(response'.op = "clear_annual_markets" /\ session.state # bidding_open) =>
          /\ response'.status = "invalid_state"
          /\ UNCHANGED <<session, db_results, yearly_results>>]_vars

\* C5 witness: a clear_annual_markets call was refused in state market_clearing,
\* with the rows of the earlier clearing in place.
C5_Witness ==
    /\ response.op = "clear_annual_markets"
    /\ response.status = "invalid_state"
    /\ session.state = market_clearing
    /\ db_results # <<>>

\* C6 as stated: each entry point changes the session only from the
\* predecessor state of the cycle setup -> year_planning -> bidding_open ->
\* market_clearing -> year_complete -> (year_planning | game_complete); a call
\* in any other state leaves the session state and current year unchanged.
C6_NoTransitionOutOfOrder ==
    [][/\ (response'.op = "start_year_planning"
             /\ session.state \notin {setup, year_complete}) => session' = session
       /\ (response'.op = "open_annual_bidding"
             /\ session.state # year_planning) => session' = session
       /\ (response'.op = "clear_annual_markets"
             /\ session.state # bidding_open) => session' = session
       /\ (response'.op = "complete_year"
             /\ session.state \notin {market_clearing, year_complete})
             => session' = session]_vars

NoBidsFor(year) == \A i \in 1..Len(db_bids) : db_bids[i].year # year

\* C7: clear_annual_markets in state bidding_open for a year without bids does
\* not fail: the session state becomes year_complete, the result says that no
\* bids were submitted, with zero revenue, and no MarketResult row and no
\* in-memory result is created for the year.
C7_NoBidsCompletesYear ==
    [][(/\ response'.op = "clear_annual_markets"
        /\ session.state = bidding_open
        /\ NoBidsFor(response'.year)) =>
          /\ session'.state = year_complete
          /\ session'.current_year = session.current_year
          /\ response'.status = "no_bids_submitted"
          /\ response'.total_market_revenue = 0
          /\ db_results' = db_results
          /\ yearly_results' = yearly_results
          /\ response'.year \notin DOMAIN yearly_results']_vars

\* C7 witness: a year without bids was cleared from bidding_open.
C7_Witness ==
    /\ response.op = "clear_annual_markets"
    /\ response.status = "no_bids_submitted"
    /\ session.state = year_complete
    /\ NoBidsFor(response.year)

\* C8 as stated: complete_year(year) sets the state to game_complete when
\* year >= end_year, and otherwise moves the session to year_planning with
\* current year year + 1.
C8_CompleteYearStartsNextYear ==
    [][response'.op = "complete_year" =>
          IF response'.year >= end_year
          THEN session'.state = game_complete
          ELSE /\ session'.state = year_planning
               /\ session'.current_year = response'.year + 1]_vars

\* C8 amended: complete_year(year) sets the state to game_complete when
\* year >= end_year and to year_complete otherwise, and leaves the current
\* year as it was.
C8_CompleteYearSetsYearComplete ==
    [][response'.op = "complete_year" =>
          /\ session'.state = IF response'.year >= end_year
                              THEN game_complete ELSE year_complete
          /\ session'.current_year = session.current_year]_vars

\* C8 witness: complete_year was called after a clearing for the current year,
\* a year before the end year, and the session is in year_complete at that year.
C8_Witness ==
    /\ response.op = "complete_year"
    /\ response.year < end_year
    /\ response.year = session.current_year
    /\ response.year \in DOMAIN yearly_results
    /\ session.state = year_complete

\* C9 as stated: once the state is game_complete, no call of
\* start_year_planning, open_annual_bidding, clear_annual_markets,
\* complete_year or advance_year changes the session state or current year.
C9_GameCompleteIsTerminal ==
    [][(/\ session.state = game_complete
        /\ response'.op \in {"start_year_planning", "open_annual_bidding",
                             "clear_annual_markets", "complete_year",
                             "advance_year"}) => session' = session]_vars

(***************************************************************************)
(* Bids and market results of the session.                                 *)
(***************************************************************************)
BidWithId(bids, id) == CHOOSE i \in 1..Len(bids) : bids[i].id = id
PlantWithId(plants, id) == CHOOSE i \in 1..Len(plants) : plants[i].id = id

\* C11 as stated: a plant that is not available in year Y (not operating, Y
\* outside its commissioning and retirement years, or Y a maintenance year) is
\* never eligible to bid for Y: no MarketResult a clearing stores for Y accepts
\* a bid of a plant that is not available in Y when the year is cleared.
C11_UnavailablePlantNeverAccepted ==
    [][response'.op = "clear_annual_markets" =>
          \A k \in (Len(db_results) + 1)..Len(db_results') :
            \A a \in 1..Len(db_results'[k].accepted_supply_bids) :
              LET bid == db_bids[BidWithId(db_bids,
                                           db_results'[k].accepted_supply_bids[a])]
                  plant == db_plants[PlantWithId(db_plants, bid.plant_id)]
              IN  is_available(plant, db_results'[k].year)]_vars

SameKey(a, b) == a.plant_id = b.plant_id /\ a.year = b.year

SameValues(a, b) ==
    /\ a.off_peak_quantity = b.off_peak_quantity
    /\ a.shoulder_quantity = b.shoulder_quantity
    /\ a.peak_quantity = b.peak_quantity
    /\ a.off_peak_price = b.off_peak_price
    /\ a.shoulder_price = b.shoulder_price
    /\ a.peak_price = b.peak_price

ClearedYears == {db_results[k].year : k \in 1..Len(db_results)}

\* C13 as stated: once clear_annual_markets has produced MarketResults for
\* year Y, no submit_yearly_bid call changes a stored bid for Y or adds one.
C13_BidsImmutableOnceCleared ==
    [][response'.op = "submit_yearly_bid" =>
          \A y \in ClearedYears :
              bids_of_year(db_bids', y) = bids_of_year(db_bids, y)]_vars

\* C14 as stated: submit_yearly_bid adds or changes a bid only when the state
\* of the session is bidding_open; in every other state the bid store is left
\* unchanged.
C14_BidsOnlyWhileBiddingOpen ==
    [][(response'.op = "submit_yearly_bid" /\ session.state # bidding_open)
          => db_bids' = db_bids]_vars

\* C15 as stated: the persisted market results hold at most one MarketResult
\* per (year, period) of the session, also after bidding was re-opened and the
\* same year cleared again.
C15_OneResultPerYearAndPeriod ==
    \A i, j \in 1..Len(db_results) :
        (db_results[i].year = db_results[j].year
            /\ db_results[i].period = db_results[j].period) => i = j

(***************************************************************************)
(* Investment, settlement and demand growth.                               *)
(***************************************************************************)
Created == response.op = "create_power_plant" /\ response.status = "created"

\* C16 as stated: a successful create_power_plant with capital cost C raises
\* the owning utility's debt by 0.7 C, lowers its equity by 0.3 C and lowers
\* its budget by 0.3 C, and leaves every other utility's finances unchanged.
C16_PlantFinancedSeventyThirty ==
    [][Created' =>
          LET u == response'.utility_id
              cost == response'.capital_cost_total
          IN  /\ db_users'[u].debt = db_users[u].debt + (cost * 7) \div 10
              /\ db_users'[u].equity = db_users[u].equity - (cost * 3) \div 10
              /\ db_users'[u].budget = db_users[u].budget - (cost * 3) \div 10
              /\ \A v \in Utilities \ {u} : db_users'[v] = db_users[v]]_vars

\* C17 as stated: create_power_plant fails with insufficient funds whenever
\* the utility's budget is below the required equity 0.3 C, a failed creation
\* adds no plant and leaves budget, debt and equity as they were, and plant
\* creation never drives a budget negative.
C17_InsufficientFundsBlocksCreation ==
    [][(response'.op = "create_power_plant"
          /\ response'.status # "invalid_plant_type") =>
          LET u == response'.utility_id
              cost == response'.capital_cost_total
          IN  /\ db_users[u].budget < (cost * 3) \div 10 =>
                    /\ response'.status = "insufficient_funds"
                    /\ db_plants' = db_plants
                    /\ db_users' = db_users
              /\ db_users[u].budget >= 0 => db_users'[u].budget >= 0]_vars

\* C18: clear_annual_markets, whatever its outcome (cleared, scarcity, no
\* bids, refused), and complete_year leave the budget, debt and equity of
\* every utility unchanged; the revenue is only reported.
C18_SettlementNotDeposited ==
    [][response'.op \in {"clear_annual_markets", "complete_year"}
          => db_users' = db_users]_vars

\* C18 witness: a year was cleared with revenue reported for a utility whose
\* budget is the small one drawn, one period in scarcity and one not.
C18_Witness ==
    /\ response.op = "clear_annual_markets"
    /\ response.status = "annual_markets_cleared"
    /\ \E u \in DOMAIN response.utility_performance :
          /\ response.utility_performance[u].total_revenue > 0
          /\ db_users[u].budget < response.utility_performance[u].total_revenue
    /\ \E k \in 1..Len(db_results) : db_results[k].marginal_plant = None
    /\ \E k \in 1..Len(db_results) : db_results[k].marginal_plant # None

RECURSIVE PositiveSupply(_, _)
PositiveSupply(bids, p) ==
    IF bids = <<>> THEN 0
    ELSE (IF bid_quantity(Head(bids), p) > 0 THEN bid_quantity(Head(bids), p) ELSE 0)
         + PositiveSupply(Tail(bids), p)

ForecastOf(year, p) ==
    IF p = OFF_PEAK THEN get_demand_forecast(year).off_peak
    ELSE IF p = SHOULDER THEN get_demand_forecast(year).shoulder
    ELSE get_demand_forecast(year).peak

\* C19 as stated: clear_annual_markets(year) clears each period against base
\* demand x (1 + growth rate)^(year - start_year), the demand forecast that
\* start_year_planning reports for the year: the cleared quantity of each
\* stored result is the smaller of that demand and the positive supply bid.
C19_ClearingDemandFollowsGrowth ==
    [][response'.op = "clear_annual_markets" =>
          \A k \in (Len(db_results) + 1)..Len(db_results') :
              db_results'[k].cleared_quantity
                  = Min(ForecastOf(db_results'[k].year, db_results'[k].period),
                        PositiveSupply(bids_of_year(db_bids, db_results'[k].year),
                                       db_results'[k].period))]_vars

PlantsOf(plants, session_id) ==
    SelectSeq(plants, LAMBDA pl : pl.game_session_id = session_id)

\* C20 as stated: an operation on another session leaves this session's
\* state, current year, plants, bids and MarketResults unchanged, and leaves
\* the outcome of an operation on this session unchanged: a plant creation
\* here finds the same funds and yields the same financial figures.
C20_SessionsIndependent ==
    [][(response'.op \in {"create_power_plant", "assign_portfolio"}
          /\ response'.game_session_id = other_session_id) =>
          /\ session' = session
          /\ PlantsOf(db_plants', game_session_id) = PlantsOf(db_plants, game_session_id)
          /\ db_bids' = db_bids
          /\ db_results' = db_results
          /\ \A u \in Utilities, plant \in PlantRequests :
                plant.plant_type \in DOMAIN PLANT_TEMPLATES_DATA =>
                    finance_plant(db_users'[u], total_capital_cost_of(plant))
                        = finance_plant(db_users[u], total_capital_cost_of(plant))]_vars

(***************************************************************************)
(* The plant lifecycle.                                                    *)
(***************************************************************************)
\* C10: once a plant is retired, no lifecycle pass, for any year and in any
\* order of years, changes its status.
C10_RetiredIsTerminal ==
    [][\A i \in 1..Len(db_plants) :
          db_plants[i].status = retired => db_plants'[i].status = retired]_vars

\* C10 witness: a retired plant after a lifecycle pass for a year below its
\* retirement year and not below its commissioning year.
C10_Witness ==
    /\ response.op = "start_year_planning"
    /\ db_plants[1].status = retired
    /\ response.year < db_plants[1].retirement_year
    /\ response.year >= db_plants[1].commissioning_year
    /\ response.plant_updates = <<>>

(***************************************************************************)
(* The figures of the clearing report.                                     *)
(***************************************************************************)
\* C21 as stated: no computation of the game flow raises on a zero
\* denominator: a clear_annual_markets call accepted in bidding_open with
\* bids for the year returns its report (the weighted average price being 0
\* when no energy cleared) and never ends in a division by zero.
C21_NoZeroDivision ==
    [][response'.op = "clear_annual_markets" =>
          response'.status # "zero_division_error"]_vars

C23_NoCrossPeriodCoupling ==
    response.op = "clear_period_market_other_periods" =>
        /\ response.result.clearing_price = market_result.clearing_price
        /\ response.result.cleared_quantity = market_result.cleared_quantity
        /\ response.result.accepted_supply_bids = market_result.accepted_supply_bids
        /\ response.result.marginal_plant = market_result.marginal_plant

\* C23 witness: the shoulder period cleared with an accepted marginal bid,
\* and cleared again after the off-peak and peak values of a bid changed.
C23_Witness ==
    /\ response.op = "clear_period_market_other_periods"
    /\ response.changed
    /\ period = SHOULDER
    /\ response.result.marginal_plant # None
    /\ Len(response.result.accepted_supply_bids) = 2

(***************************************************************************)
(* Ties and discarded bids.                                                *)
(***************************************************************************)
\* The position in the bid list of the bid with the given id.
ListIndex(id) == CHOOSE i \in 1..Len(supply_bids) : supply_bids[i].id = id

\* C24: bids of equal price for the period are accepted in the order of the
\* bid list handed to the engine: tied accepted bids keep their list order,
\* a tied bid left out comes later in the list than every accepted bid of
\* its price, and the marginal bid is the last accepted one, so the earliest
\* tied bid whose cumulative quantity reaches demand.
C24_TiesInSubmissionOrder ==
    Cleared =>
        LET accepted == market_result.accepted_supply_bids
            price(k) == bid_price(supply_bids[ListIndex(accepted[k])], period)
        IN  /\ \A a, b \in 1..Len(accepted) :
                  (a < b /\ price(a) = price(b)) =>
                      ListIndex(accepted[a]) < ListIndex(accepted[b])
            /\ \A i \in PositiveBids, k \in 1..Len(accepted) :
                  (bid_price(supply_bids[i], period) = price(k)
                      /\ \A a \in 1..Len(accepted) : ListIndex(accepted[a]) # i) =>
                          ListIndex(accepted[k]) < i
            /\ market_result.marginal_plant # None =>
                  market_result.marginal_plant
                      = supply_bids[ListIndex(accepted[Len(accepted)])].plant_id

\* C24 witness: two bids of the same price straddle demand; the first of the
\* list is accepted and marginal, the second is left out.
C24_Witness ==
    /\ Cleared
    /\ Len(supply_bids) = 2
    /\ PositiveBids = {1, 2}
    /\ bid_price(supply_bids[1], period) = bid_price(supply_bids[2], period)
    /\ market_result.accepted_supply_bids = <<supply_bids[1].id>>
    /\ market_result.marginal_plant = supply_bids[1].plant_id
    /\ market_result.clearing_price = bid_price(supply_bids[1], period)

\* The bids of the list that have a positive quantity for the period.
WithoutDiscarded ==
    SelectSeq(supply_bids, LAMBDA bid : bid_quantity(bid, period) > 0)

\* C25: a bid whose quantity for the period is 0 or below takes no part in
\* clearing it: it is not accepted, its plant is not marginal, it adds
\* nothing to the cleared quantity, and the result, clearing price under the
\* scarcity rule included, is the one the engine returns without that bid.
C25_DiscardedBidTakesNoPart ==
    Cleared =>
        /\ \A i \in 1..Len(supply_bids) :
              i \notin PositiveBids =>
                  /\ \A a \in 1..Len(market_result.accepted_supply_bids) :
                        market_result.accepted_supply_bids[a] # supply_bids[i].id
                  /\ market_result.marginal_plant # None =>
                        market_result.marginal_plant # supply_bids[i].plant_id
        /\ market_result.cleared_quantity <= PositiveSupply(supply_bids, period)
        /\ market_result
              = clear_period_market(WithoutDiscarded, demand_profile, period,
                                    start_year)

\* C25 witness: supply falls short of demand while a bid of quantity 0 or
\* below asks more than every bid of positive quantity; the scarcity price
\* is twice the highest price among the latter.
C25_Witness ==
    /\ Cleared
    /\ Scarcity
    /\ \E i \in 1..Len(supply_bids) :
          /\ i \notin PositiveBids
          /\ bid_price(supply_bids[i], period) > HighestPrice
    /\ market_result.clearing_price = 2 * HighestPrice
    /\ market_result.cleared_quantity > 0

(***************************************************************************)
(* The results of an annual clearing.                                      *)
(***************************************************************************)
\* The prices the year's bids ask for the period.
SubmittedPrices(year, p) ==
    {bid_price(bids_of_year(db_bids, year)[i], p) :
        i \in 1..Len(bids_of_year(db_bids, year))}

\* C26 as stated: the clearing price of every MarketResult stored by
\* clear_annual_markets, a period in which no bid of the year has a positive
\* quantity included, is the price of a bid submitted for that period or
\* twice the highest price submitted for it.
C26_PriceFromSubmittedBid ==
    [][response'.op = "clear_annual_markets" =>
          \A k \in (Len(db_results) + 1)..Len(db_results') :
              LET prices == SubmittedPrices(db_results'[k].year, db_results'[k].period)
              IN  \/ db_results'[k].clearing_price \in prices
                  \/ \E x \in prices :
                        /\ \A y \in prices : y <= x
                        /\ db_results'[k].clearing_price = 2 * x]_vars

\* C27 as stated: clear_annual_markets(year) called in bidding_open with at
\* least one bid for the year leaves the session in market_clearing, stores
\* exactly one MarketResult of that year for each of off-peak, shoulder and
\* peak, and reports a total market revenue equal to the sum over the three
\* periods of clearing price x total energy.
C27_ClearingPostconditions ==
    [][(response'.op = "clear_annual_markets"
          /\ session.state = bidding_open
          /\ bids_of_year(db_bids, response'.year) # <<>>) =>
          LET new == SubSeq(db_results', Len(db_results) + 1, Len(db_results'))
          IN  /\ session'.state = market_clearing
              /\ Len(new) = 3
              /\ \A p \in LoadPeriod :
                    Cardinality({k \in 1..Len(new) :
                        new[k].period = p /\ new[k].year = response'.year}) = 1
              /\ response'.status = "annual_markets_cleared"
              /\ response'.total_market_revenue
                    = new[1].clearing_price * new[1].total_energy
                      + new[2].clearing_price * new[2].total_energy
                      + new[3].clearing_price * new[3].total_energy]_vars

(***************************************************************************)
(* Plants not yet commissioned.                                            *)
(***************************************************************************)
\* C28 as stated: in every reachable state, a plant whose commissioning year
\* is later than the current year of its session is under construction, not
\* operating, and is not available for that year, whatever the start year of
\* the session and whether create_power_plant or a portfolio assignment
\* created the plant.
C28_FuturePlantUnderConstruction ==
    \A i \in 1..Len(db_plants) :
        LET current_year == session_row(db_plants[i].game_session_id).current_year
        IN  db_plants[i].commissioning_year > current_year =>
                /\ db_plants[i].status = under_construction
                /\ ~is_available(db_plants[i], current_year)

(***************************************************************************)
(* Retirement and maintenance in the lifecycle pass.                       *)
(***************************************************************************)
\* C29: after the lifecycle pass of start_year_planning(year), every plant of
\* the session whose retirement year is not later than year is retired,
\* whatever its status before the pass and whichever of the commissioning and
\* maintenance rules changed it in the same pass.
C29_RetirementTakesPrecedence ==
    [][response'.op = "start_year_planning" =>
          \A i \in 1..Len(db_plants') :
              (db_plants'[i].game_session_id = game_session_id
                  /\ response'.year >= db_plants'[i].retirement_year) =>
                      db_plants'[i].status = retired]_vars

\* C29 witness: one pass commissioned a plant, sent it to maintenance and
\* retired it.
C29_Witness ==
    /\ response.op = "start_year_planning"
    /\ Len(response.plant_updates) = 3
    /\ response.plant_updates[1].change = "commissioned"
    /\ response.plant_updates[3].change = "retired"
    /\ db_plants[1].status = retired
    /\ response.year >= db_plants[1].retirement_year

Scheduled(plant) ==
    LET years == plant.maintenance_years
        marks == years \cup {plant.commissioning_year}
        last == CHOOSE y \in marks : \A z \in marks : z <= y
    IN  /\ \A y \in years :
              /\ y < plant.retirement_year
              /\ \E prev \in marks :
                    /\ y - prev \in 3..5
                    /\ \A z \in marks : ~(prev < z /\ z < y)
        /\ last + 5 >= plant.retirement_year

\* C32 as stated: the plant row create_power_plant stores carries the
\* maintenance years scheduled at creation, one every 3 to 5 years from the
\* commissioning year up to the retirement year.
C32_MaintenanceScheduledAtCreation ==
    [][(response'.op = "create_power_plant" /\ response'.status = "created") =>
          Scheduled(db_plants'[Len(db_plants')])]_vars

\* The ids of the plant rows of the session.
PlantIds(plants) ==
    {plants[i].id : i \in {j \in 1..Len(plants) :
                              plants[j].game_session_id = game_session_id}}

\* C33 as stated: no operation removes a plant of the session: across plant
\* creations and portfolio assignments the set of the session's plant ids
\* only grows.
C33_PlantsNeverDeleted ==
    [][PlantIds(db_plants) \subseteq PlantIds(db_plants')]_vars

(***************************************************************************)
(* The performance reported per utility.                                   *)
(***************************************************************************)
HoursOf(p) ==
    IF p = OFF_PEAK THEN off_peak_hours
    ELSE IF p = SHOULDER THEN shoulder_hours ELSE peak_hours

\* Whether the bid is on the accepted list of the result.
Accepted(result, bid) ==
    \E a \in 1..Len(result.accepted_supply_bids) :
        result.accepted_supply_bids[a] = bid.id

\* The energy, or the revenue, of the accepted bids of one utility among the
\* first k bids, over the three periods of the year's results.
RECURSIVE SettledOf(_, _, _, _, _)
SettledOf(bids, results, utility_id, k, priced) ==
    IF k = 0 THEN 0
    ELSE LET bid == bids[k]
             part(p) ==
                 IF bid.utility_id = utility_id /\ Accepted(results[p], bid)
                 THEN bid_quantity(bid, p) * HoursOf(p)
                          * (IF priced THEN results[p].clearing_price ELSE 1)
                 ELSE 0
         IN  part(OFF_PEAK) + part(SHOULDER) + part(PEAK)
             + SettledOf(bids, results, utility_id, k - 1, priced)

RECURSIVE FixedCostsOf(_, _, _)
FixedCostsOf(plants, utility_id, k) ==
    IF k = 0 THEN 0
    ELSE (IF plants[k].utility_id = utility_id
             /\ plants[k].game_session_id = game_session_id
          THEN plants[k].fixed_om_annual ELSE 0)
         + FixedCostsOf(plants, utility_id, k - 1)

C35_UnknownSessionNotFound ==
    [][("game_session_id" \in DOMAIN response'
          /\ response'.op \in {"start_year_planning", "open_annual_bidding",
                               "clear_annual_markets", "complete_year"}
          /\ response'.game_session_id = missing_session_id) =>
          /\ response'.status = "not_found"
          /\ UNCHANGED <<session, db_plants, db_bids, db_results,
                         yearly_results, active_games>>]_vars

(***************************************************************************)
(* Concurrent clearing.                                                    *)
(***************************************************************************)
RECURSIVE RevenueOfRows(_)
RevenueOfRows(rows) ==
    IF rows = <<>> THEN 0
    ELSE Head(rows).clearing_price * Head(rows).total_energy
         + RevenueOfRows(Tail(rows))

\* C36: nothing locks the session between the state check and the commit of
\* clear_annual_markets.  A call that passed the check stores its three
\* MarketResults and sets market_clearing whatever another call stored in
\* the meantime, so two calls that both passed the check leave two rows per
\* period; a call whose check comes after the commit of the other is refused
\* and adds nothing.
C36_UnserializedClearingDuplicates ==
    [][/\ (in_flight' # in_flight /\ in_flight' \subseteq in_flight
            /\ response'.status \in {"annual_markets_cleared",
                                     "zero_division_error"}) =>
              /\ Len(db_results') = Len(db_results) + 3
              /\ \A k \in (Len(db_results) + 1)..Len(db_results') :
                    db_results'[k].year = response'.year
              /\ session'.state = market_clearing
       /\ session.state # bidding_open =>
              /\ in_flight' \subseteq in_flight
              /\ in_flight' = in_flight => db_results' = db_results]_vars

\* C36 witness: both calls passed the check for the same year before either
\* committed; the year has two rows per period and twice the revenue the
\* last call reports.
C36_Witness ==
    /\ in_flight = {}
    /\ response.op = "clear_annual_markets"
    /\ response.status = "annual_markets_cleared"
    /\ Len(db_results) = 6
    /\ \A k \in 1..6 : db_results[k].year = response.year
    /\ \A p \in LoadPeriod :
          Cardinality({k \in 1..6 : db_results[k].period = p}) = 2
    /\ response.total_market_revenue > 0
    /\ RevenueOfRows(db_results) = 2 * response.total_market_revenue

(***************************************************************************)
(* The game driven year by year.                                           *)
(***************************************************************************)
\* C37: a driver that calls start_year_planning(y), open_annual_bidding(y),
\* clear_annual_markets(y) and complete_year(y) in that order for
\* y = start_year, start_year + 1, ..., with or without bids in a year,
\* eventually reaches game_complete, and the session is in game_complete
\* only once complete_year(end_year) has been called, not before.
C37_DriverReachesGameComplete ==
    /\ <>(session.state = game_complete)
    /\ [](session.state = game_complete =>
             /\ response.op = "complete_year"
             /\ response.year = end_year)

\* C37 witness: the game is complete after the driver went through a year
\* without bids and a year that cleared.
C37_Witness ==
    /\ session.state = game_complete
    /\ response.op = "complete_year"
    /\ response.year = end_year
    /\ bids_of_year(db_bids, start_year) = <<>>
    /\ Len(db_results) = 3
    /\ \A k \in 1..3 : db_results[k].year = end_year

(***************************************************************************)
(* The utilities' revenue against the market's.                            *)
(***************************************************************************)
\* The sum of one field of the performance of the given utilities.
RECURSIVE PerformanceTotal(_, _, _)
PerformanceTotal(performance, utilities, field) ==
    IF utilities = {} THEN 0
    ELSE LET u == CHOOSE v \in utilities : TRUE
         IN  performance[u][field]
             + PerformanceTotal(performance, utilities \ {u}, field)

\* C38: for every cleared year, the total_revenue of the utilities in
\* utility_performance adds up to the total_market_revenue of the same
\* clear_annual_markets call, and their total_generation_mwh to the sum of
\* the three periods' total_energy, also when the marginal bid's quantity
\* overshoots target demand.
C38_UtilityRevenueSumsToMarketRevenue ==
    [][(response'.op = "clear_annual_markets"
          /\ response'.status = "annual_markets_cleared") =>
          LET performance == response'.utility_performance
              results == yearly_results'[response'.year]
          IN  /\ PerformanceTotal(performance, DOMAIN performance, "total_revenue")
                    = response'.total_market_revenue
              /\ PerformanceTotal(performance, DOMAIN performance,
                                  "total_generation_mwh")
                    = results[OFF_PEAK].total_energy
                        + results[SHOULDER].total_energy
                        + results[PEAK].total_energy]_vars

(***************************************************************************)
(* The lifecycle pass run again.                                           *)
(***************************************************************************)
\* C39: the plant lifecycle pass is idempotent per year: after
\* _update_plant_statuses(year) has run, running it again for the same year
\* leaves every plant with the status it has and reports no status change,
\* for every plant state and every year.
C39_LifecyclePassIdempotent ==
    response.op = "start_year_planning" =>
        /\ update_plant_statuses(db_plants, response.year) = db_plants
        /\ plant_updates(db_plants, response.year) = <<>>

\* C39 witness: a first pass that commissioned a plant in one of its
\* maintenance years and put it into maintenance, so that a second pass
\* meets a plant the first one changed twice.
C39_Witness ==
    /\ response.op = "start_year_planning"
    /\ Len(response.plant_updates) = 2
    /\ db_plants[1].status = maintenance
    /\ response.year \in db_plants[1].maintenance_years

(***************************************************************************)
(* The current year of the session.                                        *)
(***************************************************************************)
\* C40: in every reachable state of a session created with
\* start_year <= end_year, start_year <= current_year <= end_year, after
\* any sequence of start_year_planning, open_annual_bidding,
\* clear_annual_markets, complete_year and advance_year calls, and
\* current_year never decreases.
C40_CurrentYearBoundedAndMonotonic ==
    [][/\ start_year <= session'.current_year
       /\ session'.current_year <= end_year
       /\ session'.current_year >= session.current_year]_vars

====
